---- MODULE Spec2Model ----
(***************************************************************************)
(* Model of hailo_perf_query.cpp: one run of main(), from Device::scan()   *)
(* to the return statement, with the SDK calls as nondeterministic         *)
(* outcomes and printf's conversions (%d, %lld, %g) computed digit by      *)
(* digit.                                                                  *)
(***************************************************************************)
EXTENDS Integers, Sequences, FiniteSets, TLC

VARIABLES pc, scan_result, device, perf, health, out, err, exit_code, calls

vars == <<pc, scan_result, device, perf, health, out, err, exit_code, calls>>

(* ---- bounds ---------------------------------------------------------- *)

\* most devices a scan returns
MaxDevices == 2

\* failure codes of the SDK are 1..MaxStatus (0 is HAILO_SUCCESS)
MaxStatus == 11

(* ---- decimal conversion of int: printf("%d") ------------------------- *)

DigitChar(d) == <<"0", "1", "2", "3", "4", "5", "6", "7", "8", "9">>[d + 1]

RECURSIVE DecNat(_)
DecNat(n) == IF n < 10 THEN <<DigitChar(n)>>
             ELSE DecNat(n \div 10) \o <<DigitChar(n % 10)>>

FormatD(n) == IF n < 0 THEN <<"-">> \o DecNat(0 - n) ELSE DecNat(n)

(* ---- 64-bit words as four 16-bit limbs, most significant first ------- *)

LimbBase == 2 ^ 16

IsZero64(w) == w = <<0, 0, 0, 0>>

\* two's complement negation: invert every limb and add one
Negate64(w) ==
    LET i4 == (LimbBase - 1 - w[4]) + 1
        c4 == i4 \div LimbBase
        i3 == (LimbBase - 1 - w[3]) + c4
        c3 == i3 \div LimbBase
        i2 == (LimbBase - 1 - w[2]) + c3
        c2 == i2 \div LimbBase
        i1 == (LimbBase - 1 - w[1]) + c2
    IN  <<i1 % LimbBase, i2 % LimbBase, i3 % LimbBase, i4 % LimbBase>>

\* quotient and remainder of a 64-bit word divided by ten
DivMod10(w) ==
    LET a1 == w[1]
        a2 == (a1 % 10) * LimbBase + w[2]
        a3 == (a2 % 10) * LimbBase + w[3]
        a4 == (a3 % 10) * LimbBase + w[4]
    IN  [q |-> <<a1 \div 10, a2 \div 10, a3 \div 10, a4 \div 10>>, r |-> a4 % 10]

RECURSIVE Dec64(_)
\* decimal numeral of the unsigned magnitude held in the four limbs
Dec64(w) == LET d == DivMod10(w)
            IN  IF IsZero64(d.q) THEN <<DigitChar(d.r)>>
                ELSE Dec64(d.q) \o <<DigitChar(d.r)>>

\* the (long long) cast: the same 64 bits read as a signed value
ToLongLong(w) == IF w[1] >= LimbBase \div 2
                 THEN [neg |-> TRUE, mag |-> Negate64(w)]
                 ELSE [neg |-> FALSE, mag |-> w]

\* printf("%lld", (long long)w)
FormatLLD(w) == LET v == ToLongLong(w)
                IN  IF v.neg THEN <<"-">> \o Dec64(v.mag) ELSE Dec64(v.mag)

(* ---- printf("%g", (double)x) ----------------------------------------- *)
\* A floating value is cls ("finite", "inf" or "nan"), a sign, and for a
\* finite value its significant decimal digits d1 d2 .. dk (after %g's
\* rounding to six digits) with value d1.d2..dk * 10^exp.

Precision == 6

RECURSIVE StripZeros(_)
StripZeros(ds) == IF Len(ds) > 1 /\ ds[Len(ds)] = 0
                  THEN StripZeros(SubSeq(ds, 1, Len(ds) - 1))
                  ELSE ds

RECURSIVE Zeros(_)
Zeros(n) == IF n <= 0 THEN <<>> ELSE <<"0">> \o Zeros(n - 1)

Chars(ds) == [i \in 1..Len(ds) |-> DigitChar(ds[i])]

\* style e: d[.ddd]e+XX, at least two exponent digits
FormatE(ds, x) ==
    LET ax == IF x < 0 THEN 0 - x ELSE x
        xs == IF ax < 10 THEN <<"0">> \o DecNat(ax) ELSE DecNat(ax)
        frac == IF Len(ds) > 1 THEN <<".">> \o Chars(SubSeq(ds, 2, Len(ds)))
                ELSE <<>>
    IN  <<DigitChar(ds[1])>> \o frac \o <<"e", IF x < 0 THEN "-" ELSE "+">> \o xs

\* style f with the trailing zeros of the fraction removed
FormatF(ds, x) ==
    IF x < 0
    THEN <<"0", ".">> \o Zeros(0 - x - 1) \o Chars(ds)
    ELSE IF Len(ds) <= x + 1
         THEN Chars(ds) \o Zeros(x + 1 - Len(ds))
         ELSE Chars(SubSeq(ds, 1, x + 1)) \o <<".">>
              \o Chars(SubSeq(ds, x + 2, Len(ds)))

FormatG(f) ==
    LET sign == IF f.neg THEN <<"-">> ELSE <<>>
        ds == StripZeros(f.digits)
    IN  IF f.cls = "nan" THEN sign \o <<"n", "a", "n">>
        ELSE IF f.cls = "inf" THEN sign \o <<"i", "n", "f">>
        ELSE IF ds = <<0>> THEN sign \o <<"0">>
        ELSE IF f.exp < 0 - 4 \/ f.exp >= Precision
             THEN sign \o FormatE(ds, f.exp)
             ELSE sign \o FormatF(ds, f.exp)

(* ---- values the SDK can hand back ------------------------------------ *)

Fin(neg, ds, x) == [cls |-> "finite", neg |-> neg, digits |-> ds, exp |-> x]
NaN == [cls |-> "nan", neg |-> FALSE, digits |-> <<0>>, exp |-> 0]
Inf(neg) == [cls |-> "inf", neg |-> neg, digits |-> <<0>>, exp |-> 0]

\* 0.42, 0 and a not-a-number
CpuSamples == {Fin(FALSE, <<4, 2>>, 0 - 1), Fin(FALSE, <<0>>, 0), NaN}

\* 0.1 and 0.00001
NncSamples == {Fin(FALSE, <<1>>, 0 - 1), Fin(FALSE, <<1>>, 0 - 5)}

\* 55.5, -3.5, 1000000 and +infinity
TempSamples == {Fin(FALSE, <<5, 5, 5>>, 1), Fin(TRUE, <<3, 5>>, 0),
                Fin(FALSE, <<1>>, 6), Inf(FALSE)}

\* 1073741824, 2^63 - 1, 2^63
RamTotalSamples == {<<0, 0, 16384, 0>>,
                    <<32767, 65535, 65535, 65535>>,
                    <<32768, 0, 0, 0>>}

\* 0, 536870912, 2^64 - 1
RamUsedSamples == {<<0, 0, 0, 0>>,
                   <<0, 0, 8192, 0>>,
                   <<65535, 65535, 65535, 65535>>}

DspSamples == {5, 0 - 1}
VoltageSamples == {900, 0}
BistSamples == {0, 255}

StatusCodes == 1..MaxStatus

PerfStats == [cpu_utilization : CpuSamples, ram_size_total : RamTotalSamples,
              ram_size_used : RamUsedSamples, nnc_utilization : NncSamples,
              dsp_utilization : DspSamples]

HealthStats == [on_die_temperature : TempSamples, on_die_voltage : VoltageSamples,
                bist_failure_mask : BistSamples]

\* Expected<T>: a value, or a failure status
Ok(v) == [ok |-> TRUE, status |-> 0, value |-> v]
Fail(s) == [ok |-> FALSE, status |-> s, value |-> <<>>]
Expected(T) == {Ok(v) : v \in T} \cup {Fail(s) : s \in StatusCodes}

\* not yet constructed
Unset == [ok |-> FALSE, status |-> 0, value |-> <<>>]

DeviceIds == {[i \in 1..n |-> i] : n \in 0..MaxDevices}

(* ---- output lines ----------------------------------------------------- *)

Open == [kind |-> "open", key |-> "", val |-> <<>>, comma |-> FALSE]
Close == [kind |-> "close", key |-> "", val |-> <<>>, comma |-> FALSE]
Member(k, v, c) == [kind |-> "member", key |-> k, val |-> v, comma |-> c]
True == <<"t", "r", "u", "e">>
False == <<"f", "a", "l", "s", "e">>

ErrLine(t, f, v) == [text |-> t, field |-> f, val |-> v]

(* ---- main() ----------------------------------------------------------- *)

Init ==
    /\ pc = "scan"
    /\ scan_result = Unset
    /\ device = Unset
    /\ perf = Unset
    /\ health = Unset
    /\ out = <<>>
    /\ err = <<>>
    /\ exit_code = <<>>
    /\ calls = <<>>

Scan ==
    /\ pc = "scan"
    /\ \E r \in Expected(DeviceIds) : scan_result' = r
    /\ calls' = Append(calls, "scan")
    /\ pc' = "scanned"
    /\ UNCHANGED <<device, perf, health, out, err, exit_code>>

ScanFailed(r) == ~r.ok \/ Len(r.value) = 0

\* the fixed message sent to standard output and not to standard error
NoDevicesFound_ToStdout ==
    /\ pc = "scanned"
    /\ ~scan_result.ok \/ Len(scan_result.value) = 0
    /\ out' = Append(out, [kind |-> "text", key |-> "hailo_perf_query: no devices found",
                         val |-> <<>>, comma |-> FALSE])
    /\ exit_code' = <<1>>
    /\ pc' = "done"
    /\ UNCHANGED <<scan_result, device, perf, health, err, calls>>

NoDevicesFound ==
    /\ pc = "scanned"
    /\ ScanFailed(scan_result)
    /\ err' = Append(err, ErrLine("hailo_perf_query: no devices found", "", <<>>))
    /\ exit_code' = <<1>>
    /\ pc' = "done"
    /\ UNCHANGED <<scan_result, device, perf, health, out, calls>>

Create ==
    /\ pc = "scanned"
    /\ ~ScanFailed(scan_result)
    /\ \E d \in Expected({scan_result.value[1]}) : device' = d
    /\ calls' = Append(calls, "create")
    /\ pc' = "created"
    /\ UNCHANGED <<scan_result, perf, health, out, err, exit_code>>

\* the status printed is the scan's and not the open attempt's
OpenFailed_ScanStatus ==
    /\ pc = "created"
    /\ ~device.ok
    /\ err' = Append(err, ErrLine("hailo_perf_query: failed to open device",
                                  "status", FormatD(scan_result.status)))
    /\ exit_code' = <<1>>
    /\ pc' = "done"
    /\ UNCHANGED <<scan_result, device, perf, health, out, calls>>

\* a failed open is tried again
OpenFailed_Retry ==
    /\ pc = "created"
    /\ ~device.ok
    /\ err' = Append(err, ErrLine("hailo_perf_query: failed to open device",
                                  "status", FormatD(device.status)))
    /\ pc' = "scanned"
    /\ UNCHANGED <<scan_result, device, perf, health, out, exit_code, calls>>

OpenFailed ==
    /\ pc = "created"
    /\ ~device.ok
    /\ err' = Append(err, ErrLine("hailo_perf_query: failed to open device",
                                  "status", FormatD(device.status)))
    /\ exit_code' = <<1>>
    /\ pc' = "done"
    /\ UNCHANGED <<scan_result, device, perf, health, out, calls>>

QueryPerformanceStats ==
    /\ pc = "created"
    /\ device.ok
    /\ \E p \in Expected(PerfStats) : perf' = p
    /\ calls' = Append(calls, "query_performance_stats")
    /\ pc' = "query_health"
    /\ UNCHANGED <<scan_result, device, health, out, err, exit_code>>

QueryHealthStats ==
    /\ pc = "query_health"
    /\ \E h \in Expected(HealthStats) : health' = h
    /\ calls' = Append(calls, "query_health_stats")
    /\ pc' = "print_open"
    /\ UNCHANGED <<scan_result, device, perf, out, err, exit_code>>

PrintOpenBrace ==
    /\ pc = "print_open"
    /\ out' = Append(out, Open)
    /\ pc' = "print_perf"
    /\ UNCHANGED <<scan_result, device, perf, health, err, exit_code, calls>>

\* perf_ok printed first on success too
PerfLines_FlagFirst(p) ==
    IF p.ok
    THEN << Member("perf_ok", True, TRUE),
            Member("cpu_utilization", FormatG(p.value.cpu_utilization), TRUE),
            Member("ram_size_total", FormatLLD(p.value.ram_size_total), TRUE),
            Member("ram_size_used", FormatLLD(p.value.ram_size_used), TRUE),
            Member("nnc_utilization", FormatG(p.value.nnc_utilization), TRUE),
            Member("dsp_utilization", FormatD(p.value.dsp_utilization), TRUE) >>
    ELSE << Member("perf_ok", False, TRUE),
            Member("perf_error", FormatD(p.status), TRUE) >>

PerfLines(p) ==
    IF p.ok
    THEN << Member("cpu_utilization", FormatG(p.value.cpu_utilization), TRUE),
            Member("ram_size_total", FormatLLD(p.value.ram_size_total), TRUE),
            Member("ram_size_used", FormatLLD(p.value.ram_size_used), TRUE),
            Member("nnc_utilization", FormatG(p.value.nnc_utilization), TRUE),
            Member("dsp_utilization", FormatD(p.value.dsp_utilization), TRUE),
            Member("perf_ok", True, TRUE) >>
    ELSE << Member("perf_ok", False, TRUE),
            Member("perf_error", FormatD(p.status), TRUE) >>

\* a failed performance query also reported on standard error
PrintPerf_Diagnostic ==
    /\ pc = "print_perf"
    /\ out' = out \o PerfLines(perf)
    /\ err' = IF perf.ok THEN err
              ELSE Append(err, ErrLine("hailo_perf_query: performance query failed",
                                       "status", FormatD(perf.status)))
    /\ pc' = "print_health"
    /\ UNCHANGED <<scan_result, device, perf, health, exit_code, calls>>

PrintPerf ==
    /\ pc = "print_perf"
    /\ out' = out \o PerfLines(perf)
    /\ pc' = "print_health"
    /\ UNCHANGED <<scan_result, device, perf, health, err, exit_code, calls>>

\* health_ok printed first on success too
HealthLines_FlagFirst(h) ==
    IF h.ok
    THEN << Member("health_ok", True, TRUE),
            Member("on_die_temperature", FormatG(h.value.on_die_temperature), TRUE),
            Member("on_die_voltage", FormatD(h.value.on_die_voltage), TRUE),
            Member("bist_failure_mask", FormatD(h.value.bist_failure_mask), FALSE) >>
    ELSE << Member("health_ok", False, TRUE),
            Member("health_error", FormatD(h.status), FALSE) >>

HealthLines(h) ==
    IF h.ok
    THEN << Member("on_die_temperature", FormatG(h.value.on_die_temperature), TRUE),
            Member("on_die_voltage", FormatD(h.value.on_die_voltage), TRUE),
            Member("bist_failure_mask", FormatD(h.value.bist_failure_mask), TRUE),
            Member("health_ok", True, FALSE) >>
    ELSE << Member("health_ok", False, TRUE),
            Member("health_error", FormatD(h.status), FALSE) >>

\* the health block given up once the performance query has failed
PrintHealth_AfterPerfOnly ==
    /\ pc = "print_health"
    /\ out' = out \o (IF perf.ok THEN HealthLines(health)
                      ELSE << Member("health_ok", False, TRUE),
                              Member("health_error", FormatD(perf.status), FALSE) >>)
    /\ pc' = "print_close"
    /\ UNCHANGED <<scan_result, device, perf, health, err, exit_code, calls>>

PrintHealth ==
    /\ pc = "print_health"
    /\ out' = out \o HealthLines(health)
    /\ pc' = "print_close"
    /\ UNCHANGED <<scan_result, device, perf, health, err, exit_code, calls>>

\* a failed query made fatal
PrintCloseBrace_QueryFatal ==
    /\ pc = "print_close"
    /\ out' = Append(out, Close)
    /\ exit_code' = IF perf.ok /\ health.ok THEN <<0>> ELSE <<1>>
    /\ pc' = "done"
    /\ UNCHANGED <<scan_result, device, perf, health, err, calls>>

PrintCloseBrace ==
    /\ pc = "print_close"
    /\ out' = Append(out, Close)
    /\ exit_code' = <<0>>
    /\ pc' = "done"
    /\ UNCHANGED <<scan_result, device, perf, health, err, calls>>

Next ==
    \/ Scan
    \/ NoDevicesFound
    \/ Create
    \/ OpenFailed
    \/ QueryPerformanceStats
    \/ QueryHealthStats
    \/ PrintOpenBrace
    \/ PrintPerf
    \/ PrintHealth
    \/ PrintCloseBrace

Spec == Init /\ [][Next]_vars

(* ---- reading the output back ------------------------------------------ *)

Digits == {"0", "1", "2", "3", "4", "5", "6", "7", "8", "9"}

\* one step of the JSON number grammar
\*   -? (0 | [1-9][0-9]*) (. [0-9]+)? ([eE] [+-]? [0-9]+)?
NumStep(s, c) ==
    CASE s = "start" -> IF c = "-" THEN "neg"
                        ELSE IF c = "0" THEN "zero"
                        ELSE IF c \in Digits THEN "int" ELSE "bad"
      [] s = "neg"   -> IF c = "0" THEN "zero"
                        ELSE IF c \in Digits THEN "int" ELSE "bad"
      [] s = "zero"  -> IF c = "." THEN "dot"
                        ELSE IF c \in {"e", "E"} THEN "e" ELSE "bad"
      [] s = "int"   -> IF c \in Digits THEN "int"
                        ELSE IF c = "." THEN "dot"
                        ELSE IF c \in {"e", "E"} THEN "e" ELSE "bad"
      [] s = "dot"   -> IF c \in Digits THEN "frac" ELSE "bad"
      [] s = "frac"  -> IF c \in Digits THEN "frac"
                        ELSE IF c \in {"e", "E"} THEN "e" ELSE "bad"
      [] s = "e"     -> IF c \in {"+", "-"} THEN "esign"
                        ELSE IF c \in Digits THEN "exp" ELSE "bad"
      [] s = "esign" -> IF c \in Digits THEN "exp" ELSE "bad"
      [] s = "exp"   -> IF c \in Digits THEN "exp" ELSE "bad"
      [] OTHER       -> "bad"

RECURSIVE NumRun(_, _, _)
NumRun(cs, i, s) == IF i > Len(cs) THEN s ELSE NumRun(cs, i + 1, NumStep(s, cs[i]))

IsJSONNumber(cs) == NumRun(cs, 1, "start") \in {"zero", "int", "frac", "exp"}

IsJSONValue(cs) == cs = True \/ cs = False \/ IsJSONNumber(cs)

\* the member lines between the braces: commas after all but the last
MembersOk(ls) ==
    /\ \A i \in 1..Len(ls) :
          /\ ls[i].kind = "member"
          /\ ls[i].comma = (i < Len(ls))
    /\ \A i, j \in 1..Len(ls) : ls[i].key = ls[j].key => i = j

\* the layout of one object: brace line, members, brace line, nothing after
ObjectLayout(ls) ==
    /\ Len(ls) >= 2
    /\ ls[1] = Open
    /\ ls[Len(ls)] = Close
    /\ MembersOk(SubSeq(ls, 2, Len(ls) - 1))

WellFormedObject(ls) ==
    /\ ObjectLayout(ls)
    /\ \A i \in 2..(Len(ls) - 1) : IsJSONValue(ls[i].val)

Keys(ls) == LET ms == SelectSeq(ls, LAMBDA l : l.kind = "member")
            IN  [i \in 1..Len(ms) |-> ms[i].key]

Has(k) == \E i \in 1..Len(out) : out[i].kind = "member" /\ out[i].key = k

Val(k) == out[CHOOSE i \in 1..Len(out) : out[i].kind = "member" /\ out[i].key = k].val

Called(op) == \E i \in 1..Len(calls) : calls[i] = op

IsPrefix(s, t) == Len(s) <= Len(t) /\ \A i \in 1..Len(s) : s[i] = t[i]

PerfDataKeys == {"cpu_utilization", "ram_size_total", "ram_size_used",
                 "nnc_utilization", "dsp_utilization"}
PerfKeys == PerfDataKeys \cup {"perf_ok", "perf_error"}
HealthDataKeys == {"on_die_temperature", "on_die_voltage", "bist_failure_mask"}
HealthKeys == HealthDataKeys \cup {"health_ok", "health_error"}

Rendered == pc = "done" /\ exit_code = <<0>>

ScanUsable == scan_result.ok /\ Len(scan_result.value) > 0

(* ---- claims ------------------------------------------------------------ *)

\* C1: when the process has exited, the exit code is 0 exactly when the scan
\* returned a non-empty list and the open of the first device succeeded,
\* whatever the two queries returned, and it is 1 otherwise.
ExitCodeContract ==
    pc = "done" =>
        /\ exit_code \in {<<0>>, <<1>>}
        /\ exit_code = <<0>> <=> (ScanUsable /\ Called("create") /\ device.ok)

ExitZeroBothQueriesFailed ==
    pc = "done" /\ exit_code = <<0>> /\ ~perf.ok /\ ~health.ok

\* C2: once the device is open both queries are invoked, and the output
\* reports each query's own outcome: perf_ok / perf_error from the
\* performance result alone, health_ok / health_error from the health result
\* alone, and each block's data keys present exactly when its own query
\* succeeded.
QueriesIndependent ==
    /\ (pc = "done" /\ device.ok) =>
          Called("query_performance_stats") /\ Called("query_health_stats")
    /\ Rendered =>
          /\ Has("perf_ok") /\ Val("perf_ok") = (IF perf.ok THEN True ELSE False)
          /\ Has("perf_error") <=> ~perf.ok
          /\ ~perf.ok => Val("perf_error") = FormatD(perf.status)
          /\ \A k \in PerfDataKeys : Has(k) <=> perf.ok
          /\ Has("health_ok") /\ Val("health_ok") = (IF health.ok THEN True ELSE False)
          /\ Has("health_error") <=> ~health.ok
          /\ ~health.ok => Val("health_error") = FormatD(health.status)
          /\ \A k \in HealthDataKeys : Has(k) <=> health.ok

PerfFailedHealthReported ==
    /\ Rendered /\ ~perf.ok /\ health.ok
    /\ Has("on_die_temperature") /\ Val("health_ok") = True

\* C3: if the open of the first device fails with status S, the process exits
\* 1, standard output stays empty, neither query is invoked, and standard
\* error holds exactly one line, whose status field reads status=S.
OpenFailureContract ==
    (pc = "done" /\ Called("create") /\ ~device.ok) =>
        /\ exit_code = <<1>>
        /\ out = <<>>
        /\ ~Called("query_performance_stats") /\ ~Called("query_health_stats")
        /\ Len(err) = 1
        /\ err[1].field = "status"
        /\ err[1].val = DecNat(device.status)

OpenFailedTwoDigitStatus ==
    /\ pc = "done" /\ Called("create") /\ ~device.ok
    /\ device.status = MaxStatus /\ Len(err) = 1

\* C4: if the scan failed or returned an empty list, open and the queries are
\* never invoked and nothing is written to standard output; on exit the code
\* is 1 and standard error holds only the fixed line.
NoDevicesContract ==
    (pc \in {"scanned", "done"} /\ (~scan_result.ok \/ Len(scan_result.value) = 0)) =>
        /\ calls = <<"scan">>
        /\ out = <<>>
        /\ pc = "done" =>
              /\ exit_code = <<1>>
              /\ err = <<ErrLine("hailo_perf_query: no devices found", "", <<>>)>>

EmptyScanExited ==
    pc = "done" /\ scan_result.ok /\ Len(scan_result.value) = 0 /\ Len(err) = 1

\* C5: in every run that reaches the renderer, standard output is one
\* well-formed JSON object: an opening brace line, members each followed by a
\* comma except the last, no key twice, every value a JSON value, a closing
\* brace line and nothing after it.
OutputIsWellFormedJSON == Rendered => WellFormedObject(out)

\* C6: the performance block comes first in the output; on success its keys
\* are the five data keys and perf_ok (true) in the source order, on failure
\* with code C they are perf_ok (false) and perf_error (C) and no data key.
PerfBlockOrder ==
    Rendered =>
        LET ks == Keys(out)
            want == IF perf.ok
                    THEN <<"cpu_utilization", "ram_size_total", "ram_size_used",
                           "nnc_utilization", "dsp_utilization", "perf_ok">>
                    ELSE <<"perf_ok", "perf_error">>
        IN  /\ IsPrefix(want, ks)
            /\ SelectSeq(ks, LAMBDA k : k \in PerfKeys) = want
            /\ \A i \in 1..Len(ks) : i > Len(want) => ks[i] \in HealthKeys
            /\ Val("perf_ok") = (IF perf.ok THEN True ELSE False)
            /\ ~perf.ok => Val("perf_error") = DecNat(perf.status)

PerfFailedCode3 ==
    Rendered /\ ~perf.ok /\ perf.status = 3 /\ health.ok /\ Has("perf_error")

\* C7: the health block: on success its keys are the three data keys and
\* health_ok (true) in the source order, on failure with code C they are
\* health_ok (false) and health_error (C) and no data key.
HealthBlockOrder ==
    Rendered =>
        LET ks == Keys(out)
            want == IF health.ok
                    THEN <<"on_die_temperature", "on_die_voltage",
                           "bist_failure_mask", "health_ok">>
                    ELSE <<"health_ok", "health_error">>
        IN  /\ SelectSeq(ks, LAMBDA k : k \in HealthKeys) = want
            /\ Len(ks) >= Len(want)
            /\ SubSeq(ks, Len(ks) - Len(want) + 1, Len(ks)) = want
            /\ Val("health_ok") = (IF health.ok THEN True ELSE False)
            /\ ~health.ok => Val("health_error") = DecNat(health.status)

HealthFailedPerfPresent ==
    Rendered /\ perf.ok /\ ~health.ok /\ Has("health_error") /\ Has("cpu_utilization")

\* C8: once the device is open nothing is written to standard error; standard
\* error is written only on the two fatal paths, and no run writes to both
\* streams.
StderrOnlyOnFatalPaths ==
    /\ device.ok => err = <<>>
    /\ ~(out # <<>> /\ err # <<>>)
    /\ err # <<>> =>
          /\ pc = "done" /\ exit_code = <<1>>
          /\ ~ScanUsable \/ (Called("create") /\ ~device.ok)

BothQueriesFailedStderrEmpty ==
    Rendered /\ ~perf.ok /\ ~health.ok /\ err = <<>> /\ out # <<>>

\* C9: for every 64-bit unsigned value of ram_size_total and ram_size_used,
\* the integer printed is the unsigned decimal numeral of the field, with no
\* minus sign.
RamPrintedUnsigned ==
    (Rendered /\ perf.ok) =>
        /\ Val("ram_size_total") = Dec64(perf.value.ram_size_total)
        /\ Val("ram_size_used") = Dec64(perf.value.ram_size_used)

\* C10: the SDK calls made are always an initial part of scan, create,
\* query_performance_stats, query_health_stats: each at most once, in that
\* order, never repeated; create only after a usable scan, the queries only
\* after a successful open, and no output before both queries have returned.
LinearNoRetry ==
    /\ IsPrefix(calls, <<"scan", "create", "query_performance_stats",
                         "query_health_stats">>)
    /\ Called("create") => ScanUsable
    /\ Called("query_performance_stats") => device.ok
    /\ out # <<>> => Len(calls) = 4
    /\ pc = "done" => Len(calls) \in {1, 2, 4}

OpenFailedNoRetry ==
    pc = "done" /\ calls = <<"scan", "create">> /\ ~device.ok

====
